---------------------------- MODULE Spec2Model ----------------------------
(***************************************************************************)
(* A model of the Transformer seq2seq code of nlp_ryan                     *)
(* (Chatbot/Conv_s2s_pytorch/seq2seq):                                     *)
(*   - models/transformer.py : Transformer.__init__ (configuration         *)
(*     defaults and weight tying), the encoder's and the decoder's forward *)
(*     pass as far as the attention masks go;                              *)
(*   - models/modules/normalization.py : LayerNorm1d.forward;              *)
(*   - datasets/wmt.py : WMT16_de_en.__init__.                             *)
(* Each part has its own specification over the shared variables; the      *)
(* variables of the other parts stay at their initial values.              *)
(***************************************************************************)
EXTENDS Integers, Sequences, FiniteSets, TLC

VARIABLES
    \* ---- Transformer.__init__ ----
    t_pc,          \* "new" before the constructor ran, "built" after it
    t_args,        \* the top-level arguments of the call
    t_enc_arg,     \* the encoder argument as passed (NoneArg or DictArg(d))
    t_dec_arg,     \* the decoder argument as passed
    t_enc_obj,     \* the contents of the caller's encoder dict object after the call
    t_dec_obj,     \* the contents of the caller's decoder dict object after the call
    t_enc_kwargs,  \* the keyword arguments TransformerAttentionEncoder was built with
    t_dec_kwargs,  \* the keyword arguments TransformerAttentionDecoder was built with
    t_refs,        \* attribute -> parameter object: which Parameter each .weight names
    t_heap,        \* parameter object -> its data (a counter of in-place updates)
    \* ---- TransformerAttentionEncoder.forward ----
    e_cfg,         \* [num_layers, mask_symbol] of the encoder
    e_blocks,      \* per EncoderBlock: the masks its attention holds
    e_call,        \* the last forward call: inputs, masks each block ran with, State
    \* ---- TransformerAttentionDecoder.forward ----
    d_cfg,         \* [num_layers, mask_symbol] of the decoder
    d_blocks,      \* per DecoderBlock: the masks its two attentions hold
    d_call,        \* the last forward call: inputs, context mask, masks each block ran with
    \* ---- LayerNorm1d.forward ----
    ln_mod,        \* the module: [affine, weight, bias]
    ln_prev,       \* the call before the last one: [inputs, output]
    ln_last,       \* the last call: [inputs, output]
    ln_calls,      \* number of forward calls made
    \* ---- WMT16_de_en.__init__ ----
    w_call,        \* the arguments of the last constructor call
    w_log,         \* what the call did, in order
    w_result       \* "none" | "ok" | "UnboundLocalError"

vars == << t_pc, t_args, t_enc_arg, t_dec_arg, t_enc_obj, t_dec_obj, t_enc_kwargs,
           t_dec_kwargs, t_refs, t_heap, e_cfg, e_blocks, e_call, d_cfg, d_blocks,
           d_call, ln_mod, ln_prev, ln_last, ln_calls, w_call, w_log, w_result >>

t_vars == << t_pc, t_args, t_enc_arg, t_dec_arg, t_enc_obj, t_dec_obj, t_enc_kwargs,
             t_dec_kwargs, t_refs, t_heap >>
e_vars == << e_cfg, e_blocks, e_call >>
d_vars == << d_cfg, d_blocks, d_call >>
ln_vars == << ln_mod, ln_prev, ln_last, ln_calls >>
w_vars == << w_call, w_log, w_result >>

(***************************************************************************)
(* Python values.  A value is a pair <<type, payload>> so that values of   *)
(* different Python types can be compared: None, ints and bools.           *)
(***************************************************************************)
PyNone == << "NoneType", 0 >>
PyInt(n) == << "int", n >>
PyBool(b) == << "bool", IF b THEN 1 ELSE 0 >>
PyTrue == PyBool(TRUE)
PyFalse == PyBool(FALSE)

\* Python truthiness of None, an int or a bool: None, 0 and False are falsy.
Truthy(v) == v[2] # 0

\* `a or b`
PyOr(a, b) == IF Truthy(a) THEN a ELSE b

\* A dict is a function from its keys (strings) to values; {} is the empty function.
EmptyDict == [k \in {} |-> PyNone]

\* An argument that is None or a dict: <<type, dict contents>>.
NoneArg == << "NoneType", EmptyDict >>
DictArg(d) == << "dict", d >>
IsNoneArg(a) == a[1] = "NoneType"

\* Truthiness of a dict-or-None argument: None and the empty dict are falsy.
DictTruthy(a) == a[1] = "dict" /\ DOMAIN a[2] # {}

\* (variant) a plain assignment d[key] = value, which overwrites a present key
SetDefault_Overwrite(d, key, value) ==
    [k \in DOMAIN d \cup {key} |-> IF k = key THEN value ELSE d[k]]

\* dict.setdefault(key, value): sets the key only when it is absent.
SetDefault(d, key, value) ==
    IF key \in DOMAIN d THEN d
    ELSE [k \in DOMAIN d \cup {key} |-> IF k = key THEN value ELSE d[k]]


(***************************************************************************)
(* Transformer.__init__  (models/transformer.py, 195-229)                  *)
(***************************************************************************)
\* bounds of the enumerated calls
MaxDictKeys == 1
MaxUpdates == 1

EncoderKeys == { "embedding_size", "hidden_size", "num_layers", "num_heads",
                 "vocab_size", "weight_norm", "dropout", "inner_linear" }
DecoderKeys == EncoderKeys \cup { "tie_embedding" }

\* dropout is a float; it is kept in tenths (0.1 is <<"float/10", 1>>).
PyTenths(n) == << "float/10", n >>

\* The top-level arguments the model calls the constructor with.
TopArgs ==
    [ vocab_size     : { PyInt(5) },
      hidden_size    : { PyInt(2), PyInt(4) },
      embedding_size : { PyNone, PyInt(0), PyInt(3) },
      num_layers     : { PyInt(6) },
      num_heads      : { PyInt(8) },
      inner_linear   : { PyInt(2048) },
      dropout        : { PyTenths(1) },
      tie_embedding  : { PyTrue, PyFalse },
      weight_norm    : { PyFalse, PyTrue } ]

\* The values a caller's encoder/decoder dict may hold under each key.
DictVals(k) ==
    CASE k = "vocab_size"     -> { PyInt(9) }
      [] k = "hidden_size"    -> { PyInt(4) }
      [] k = "embedding_size" -> { PyNone, PyInt(7) }
      [] k = "num_layers"     -> { PyInt(1) }
      [] k = "num_heads"      -> { PyInt(2) }
      [] k = "inner_linear"   -> { PyInt(16) }
      [] k = "dropout"        -> { PyTenths(0) }
      [] k = "tie_embedding"  -> { PyTrue, PyFalse }
      [] k = "weight_norm"    -> { PyTrue }

AllDictVals == UNION { DictVals(k) : k \in DecoderKeys }

\* The dicts over `keys` with at most MaxDictKeys keys.
Dicts(keys) ==
    UNION { { d \in [S -> AllDictVals] : \A k \in S : d[k] \in DictVals(k) }
            : S \in { T \in SUBSET keys : Cardinality(T) <= MaxDictKeys } }

\* The encoder / decoder arguments of a call: None, {} or a dict.
DictArgs(keys) == { NoneArg } \cup { DictArg(d) : d \in Dicts(keys) }

\* The (encoder, decoder) argument pairs of a call: at most MaxDictKeys keys in
\* the two dicts together.
DictArgPairs ==
    { p \in DictArgs(EncoderKeys) \X DictArgs(DecoderKeys) :
        Cardinality(DOMAIN p[1][2]) + Cardinality(DOMAIN p[2][2]) <= MaxDictKeys }

\* lines 205-212: encoder.setdefault(...) in the order of the code
EncoderSetDefaults(encoder, embedding_size, a) ==
    LET d1 == SetDefault(encoder, "embedding_size", embedding_size)
        d2 == SetDefault(d1, "hidden_size", a.hidden_size)
        d3 == SetDefault(d2, "num_layers", a.num_layers)
        d4 == SetDefault(d3, "num_heads", a.num_heads)
        d5 == SetDefault(d4, "vocab_size", a.vocab_size)
        d6 == SetDefault(d5, "weight_norm", a.weight_norm)
        d7 == SetDefault(d6, "dropout", a.dropout)
    IN  SetDefault(d7, "inner_linear", a.inner_linear)

\* lines 214-222: decoder.setdefault(...) in the order of the code
DecoderSetDefaults(decoder, embedding_size, a) ==
    LET d1 == SetDefault(decoder, "embedding_size", embedding_size)
        d2 == SetDefault(d1, "hidden_size", a.hidden_size)
        d3 == SetDefault(d2, "num_layers", a.num_layers)
        d4 == SetDefault(d3, "num_heads", a.num_heads)
        d5 == SetDefault(d4, "tie_embedding", a.tie_embedding)
        d6 == SetDefault(d5, "vocab_size", a.vocab_size)
        d7 == SetDefault(d6, "weight_norm", a.weight_norm)
        d8 == SetDefault(d7, "dropout", a.dropout)
    IN  SetDefault(d8, "inner_linear", a.inner_linear)

\* The parameter objects the constructors allocate: nn.Embedding of the encoder
\* (line 126), nn.Embedding of the decoder (line 160), nn.Linear of the decoder
\* (line 167).
ParamObjects == { "P_enc_embedding", "P_dec_embedding", "P_dec_linear" }
WeightAttrs == { "encoder.embedder.weight", "decoder.embedder.weight",
                 "decoder.classifier.weight" }

\* TransformerAttentionEncoder.__init__: self.embedder = nn.Embedding(...)
EncoderInitRefs == [ a \in { "encoder.embedder.weight" } |-> "P_enc_embedding" ]

\* (variant) the decoder ties its embedding whatever tie_embedding says
DecoderInitRefs_AlwaysTie(kwargs) ==
    [ a \in { "decoder.embedder.weight", "decoder.classifier.weight" } |-> "P_dec_linear" ]

\* TransformerAttentionDecoder.__init__, lines 160-169: a fresh embedding and a
\* fresh classifier; `if tie_embedding: self.embedder.weight = self.classifier.weight`
DecoderInitRefs(kwargs) ==
    LET fresh == [ a \in { "decoder.embedder.weight", "decoder.classifier.weight" } |->
                     IF a = "decoder.embedder.weight" THEN "P_dec_embedding"
                     ELSE "P_dec_linear" ]
    IN  IF Truthy(kwargs["tie_embedding"])
        THEN [ fresh EXCEPT !["decoder.embedder.weight"] = fresh["decoder.classifier.weight"] ]
        ELSE fresh

\* lines 225-229: build both sub-modules, then
\* `if tie_embedding: self.encoder.embedder.weight = self.decoder.classifier.weight`
TransformerRefs(a, dec_kwargs) ==
    LET enc == EncoderInitRefs
        dec == DecoderInitRefs(dec_kwargs)
        all == [ x \in WeightAttrs |-> IF x \in DOMAIN enc THEN enc[x] ELSE dec[x] ]
    IN  IF Truthy(a.tie_embedding)
        THEN [ all EXCEPT !["encoder.embedder.weight"] = all["decoder.classifier.weight"] ]
        ELSE all

\* line 203 / 204: `encoder = encoder or {}`: the dict the setdefault calls fill.
OrEmptyDict(arg) == IF DictTruthy(arg) THEN arg[2] ELSE EmptyDict

\* What the caller's own object holds afterwards: the filled dict when the
\* argument was truthy (the setdefault calls wrote into it), else what it held.
CallerObjectAfter(arg, filled) == IF DictTruthy(arg) THEN DictArg(filled) ELSE arg

\* Transformer.__init__(vocab_size, ..., encoder=enc, decoder=dec)
Transformer_init(a, enc, dec) ==
    /\ t_pc = "new"
    /\ LET embedding_size == PyOr(a.embedding_size, a.hidden_size)
           encoder == EncoderSetDefaults(OrEmptyDict(enc), embedding_size, a)
           decoder == DecoderSetDefaults(OrEmptyDict(dec), embedding_size, a)
       IN  /\ t_args' = a
           /\ t_enc_arg' = enc
           /\ t_dec_arg' = dec
           /\ t_enc_obj' = CallerObjectAfter(enc, encoder)
           /\ t_dec_obj' = CallerObjectAfter(dec, decoder)
           /\ t_enc_kwargs' = encoder
           /\ t_dec_kwargs' = decoder
           /\ t_refs' = TransformerRefs(a, decoder)
           /\ t_heap' = [ p \in ParamObjects |-> 0 ]
    /\ t_pc' = "built"
    /\ UNCHANGED << e_vars, d_vars, ln_vars, w_vars >>

\* An in-place update of the parameter reached through one .weight attribute
\* (an optimizer step on it); the data is a counter of such updates.
HeapTotal == t_heap["P_enc_embedding"] + t_heap["P_dec_embedding"] + t_heap["P_dec_linear"]

UpdateThrough(attr) ==
    /\ t_pc = "built"
    /\ HeapTotal < MaxUpdates
    /\ t_heap' = [ t_heap EXCEPT ![t_refs[attr]] = @ + 1 ]
    /\ UNCHANGED << t_pc, t_args, t_enc_arg, t_dec_arg, t_enc_obj, t_dec_obj,
                    t_enc_kwargs, t_dec_kwargs, t_refs >>
    /\ UNCHANGED << e_vars, d_vars, ln_vars, w_vars >>

\* Reading a weight through an attribute.
ReadWeight(attr) == t_heap[t_refs[attr]]


T0 ==
    /\ t_pc = "new"
    /\ t_args = EmptyDict
    /\ t_enc_arg = NoneArg
    /\ t_dec_arg = NoneArg
    /\ t_enc_obj = NoneArg
    /\ t_dec_obj = NoneArg
    /\ t_enc_kwargs = EmptyDict
    /\ t_dec_kwargs = EmptyDict
    /\ t_refs = EmptyDict
    /\ t_heap = [ p \in ParamObjects |-> 0 ]

Construct ==
    \E a \in TopArgs, p \in DictArgPairs : Transformer_init(a, p[1], p[2])

Update == \E attr \in WeightAttrs : UpdateThrough(attr)


(***************************************************************************)
(* Attention masks.  MultiHeadAttention keeps a query mask and a key mask  *)
(* that its set_mask_q / set_mask_k store and its forward applies.         *)
(* A forward call is followed for one row of the batch: `eq` is            *)
(* elementwise, so the rows of a batch are treated alike.                  *)
(***************************************************************************)
MaxLen == 2
MaxLayers == 2

PAD == "PAD"
Tokens == { PAD, "a", "b" }
\* mask_symbol=None
NoSymbol == "None"
MaskSymbols == Tokens \cup { NoSymbol }

Rows == UNION { [1..n -> Tokens] : n \in 1..MaxLen }

\* A mask is None or a row of booleans: <<type, row>>.
NoMask == << "NoneType", << >> >>
Mask(bits) == << "mask", bits >>
Masks == { NoMask } \cup UNION { { Mask(m) : m \in [1..n -> BOOLEAN] } : n \in 1..MaxLen }

\* inputs.eq(mask_symbol)
Eq(inputs, symbol) == Mask([ i \in 1..Len(inputs) |-> inputs[i] = symbol ])

\* lines 135-138 and 173-176
PaddingMask(inputs, mask_symbol) ==
    IF mask_symbol # NoSymbol THEN Eq(inputs, mask_symbol) ELSE NoMask

\* A MultiHeadAttention as built: no mask set.
NewAttention == [ mask_q |-> NoMask, mask_k |-> NoMask ]

\* MultiHeadAttention.set_mask_q / set_mask_k: store the mask.
set_mask_q(att, mask) == [ att EXCEPT !.mask_q = mask ]
set_mask_k(att, mask) == [ att EXCEPT !.mask_k = mask ]

(***************************************************************************)
(* TransformerAttentionEncoder.forward  (models/transformer.py, 134-147)   *)
(***************************************************************************)
\* EncoderBlock.__init__, lines 46-47
NewEncoderBlock == [ attention |-> NewAttention ]

\* (variant) only the query mask is set
EncoderBlock_set_mask_QueryOnly(block, mask) ==
    [ block EXCEPT !.attention = set_mask_q(block.attention, mask) ]

\* EncoderBlock.set_mask, lines 53-55
EncoderBlock_set_mask(block, mask) ==
    [ block EXCEPT !.attention = set_mask_k(set_mask_q(block.attention, mask), mask) ]

\* The activations x: the row that was embedded and, for every block they went
\* through, the block and the masks its attention applied.
Embedded(inputs) == [ embedded |-> inputs, passed |-> << >> ]

\* EncoderBlock.forward, lines 57-67: self.attention(x, x, x) applies the masks
\* the attention holds at that moment.
EncoderBlock_forward(block, i, x) ==
    [ x EXCEPT !.passed = Append(@, [ block |-> i,
                                      mask_q |-> block.attention.mask_q,
                                      mask_k |-> block.attention.mask_k ]) ]

\* lines 143-145: for block in self.blocks: block.set_mask(padding_mask); x = block(x)
RECURSIVE EncoderLoop(_, _, _, _)
EncoderLoop(blocks, i, x, padding_mask) ==
    IF i > Len(blocks) THEN [ blocks |-> blocks, x |-> x ]
    ELSE LET b == EncoderBlock_set_mask(blocks[i], padding_mask)
         IN  EncoderLoop([ blocks EXCEPT ![i] = b ], i + 1,
                         EncoderBlock_forward(b, i, x), padding_mask)

\* TransformerAttentionEncoder.forward(inputs)
Encoder_forward(inputs) ==
    LET padding_mask == PaddingMask(inputs, e_cfg.mask_symbol)
        r == EncoderLoop(e_blocks, 1, Embedded(inputs), padding_mask)
    IN  /\ e_blocks' = r.blocks
        /\ e_call' = [ made |-> TRUE,
                       inputs |-> inputs,
                       before |-> e_blocks[1].attention,
                       state |-> [ outputs |-> r.x, mask |-> padding_mask ] ]
        /\ UNCHANGED e_cfg
        /\ UNCHANGED << t_vars, d_vars, ln_vars, w_vars >>

NoEncoderCall ==
    [ made |-> FALSE, inputs |-> << >>, before |-> NewAttention,
      state |-> [ outputs |-> Embedded(<< >>), mask |-> NoMask ] ]

\* TransformerAttentionEncoder.__init__, lines 125-132
E0 ==
    /\ e_cfg = [ num_layers |-> 1, mask_symbol |-> PAD ]
    /\ e_blocks = << NewEncoderBlock >>
    /\ e_call = NoEncoderCall

EncoderInit ==
    /\ e_cfg \in [ num_layers : 1..MaxLayers, mask_symbol : MaskSymbols ]
    /\ e_blocks = [ i \in 1..e_cfg.num_layers |-> NewEncoderBlock ]
    /\ e_call = NoEncoderCall

EncoderForward == \E inputs \in Rows : Encoder_forward(inputs)

(***************************************************************************)
(* TransformerAttentionDecoder.forward  (models/transformer.py, 171-192)   *)
(***************************************************************************)
\* DecoderBlock.__init__, lines 82-85
NewDecoderBlock == [ attention |-> NewAttention, masked_attention |-> NewAttention ]

\* DecoderBlock.set_mask, lines 91-95
DecoderBlock_set_mask(block, mask, context_mask) ==
    LET attention == IF context_mask # NoMask
                     THEN set_mask_k(block.attention, context_mask)
                     ELSE block.attention
    IN  [ attention |-> attention,
          masked_attention |-> set_mask_k(set_mask_q(block.masked_attention, mask), mask) ]

\* DecoderBlock.forward, lines 97-112: masked_attention(x, x, x), then
\* attention(x, context, context), each applying the masks it holds.
DecoderBlock_forward(block, i, x) ==
    [ x EXCEPT !.passed = Append(@, [ block |-> i,
                                      self_mask_q |-> block.masked_attention.mask_q,
                                      self_mask_k |-> block.masked_attention.mask_k,
                                      cross_mask_q |-> block.attention.mask_q,
                                      cross_mask_k |-> block.attention.mask_k ]) ]

\* lines 182-184
RECURSIVE DecoderLoop(_, _, _, _, _)
DecoderLoop(blocks, i, x, padding_mask, context_mask) ==
    IF i > Len(blocks) THEN [ blocks |-> blocks, x |-> x ]
    ELSE LET b == DecoderBlock_set_mask(blocks[i], padding_mask, context_mask)
         IN  DecoderLoop([ blocks EXCEPT ![i] = b ], i + 1,
                         DecoderBlock_forward(b, i, x), padding_mask, context_mask)

\* TransformerAttentionDecoder.forward(inputs, state) with state.context.mask
Decoder_forward(inputs, context_mask) ==
    LET padding_mask == PaddingMask(inputs, d_cfg.mask_symbol)
        r == DecoderLoop(d_blocks, 1, Embedded(inputs), padding_mask, context_mask)
    IN  /\ d_blocks' = r.blocks
        /\ d_call' = [ made |-> TRUE,
                       inputs |-> inputs,
                       context_mask |-> context_mask,
                       before |-> d_blocks[1].attention,
                       x |-> r.x ]
        /\ UNCHANGED d_cfg
        /\ UNCHANGED << t_vars, e_vars, ln_vars, w_vars >>

NoDecoderCall ==
    [ made |-> FALSE, inputs |-> << >>, context_mask |-> NoMask,
      before |-> NewAttention, x |-> Embedded(<< >>) ]

D0 ==
    /\ d_cfg = [ num_layers |-> 1, mask_symbol |-> PAD ]
    /\ d_blocks = << NewDecoderBlock >>
    /\ d_call = NoDecoderCall

\* TransformerAttentionDecoder.__init__, lines 159-166
DecoderInit ==
    /\ d_cfg \in [ num_layers : 1..MaxLayers, mask_symbol : MaskSymbols ]
    /\ d_blocks = [ i \in 1..d_cfg.num_layers |-> NewDecoderBlock ]
    /\ d_call = NoDecoderCall

DecoderForward == \E inputs \in Rows, cm \in Masks : Decoder_forward(inputs, cm)


(***************************************************************************)
(* Exact arithmetic for LayerNorm1d.  A rational is <<n, d>> in lowest     *)
(* terms with d > 0.  A result of the normalisation is kept exactly as     *)
(* num / sqrt(rad) + off with rational num, rad > 0 and off.               *)
(***************************************************************************)
Abs(n) == IF n < 0 THEN -n ELSE n

RECURSIVE GCD(_, _)
GCD(a, b) == IF b = 0 THEN a ELSE GCD(b, a % b)

Rat(n, d) ==
    LET g == GCD(Abs(n), Abs(d))
        sgn == IF d < 0 THEN -1 ELSE 1
    IN  << sgn * (n \div g), sgn * (d \div g) >>
RInt(n) == << n, 1 >>
RAdd(x, y) == Rat(x[1] * y[2] + y[1] * x[2], x[2] * y[2])
RSub(x, y) == Rat(x[1] * y[2] - y[1] * x[2], x[2] * y[2])
RMul(x, y) ==
    LET a == Rat(x[1], y[2])
        c == Rat(y[1], x[2])
    IN  << a[1] * c[1], a[2] * c[2] >>
RDivInt(x, n) == Rat(x[1], x[2] * n)
RSign(x) == IF x[1] > 0 THEN 1 ELSE IF x[1] < 0 THEN -1 ELSE 0

RECURSIVE RSum(_, _)
\* the sum of r[1..n]
RSum(r, n) == IF n = 0 THEN RInt(0) ELSE RAdd(RSum(r, n - 1), r[n])

\* u = v as real numbers, for u = num/sqrt(rad) + off
SameReal(u, v) ==
    /\ u.off = v.off
    /\ RSign(u.num) = RSign(v.num)
    /\ RMul(RMul(u.num, u.num), v.rad) = RMul(RMul(v.num, v.num), u.rad)

(***************************************************************************)
(* LayerNorm1d  (models/modules/normalization.py, 7-38)                    *)
(***************************************************************************)
\* eps=1e-6 is 1/EpsDen
EpsDen == 1000000
Eps == Rat(1, EpsDen)

\* bounds: the inputs are integers in -1..MaxVal; MaxCalls forward calls
MaxVal == 1
MaxCalls == 2

\* The input shapes (b, t, features) that are followed.
LNShapes == { << 2, 2, 2 >>, << 1, 2, 3 >>, << 2, 1, 2 >> }
LNVals == -1..MaxVal

\* The module after __init__ and some training: affine=False registers weight and
\* bias as None; reset_parameters fills weight with 1 and bias with 0.
LNModules(f) ==
    { [ affine |-> FALSE, weight |-> << >>, bias |-> << >> ] } \cup
    [ affine : { TRUE },
      weight : { [ k \in 1..f |-> 1 ], [ k \in 1..f |-> IF k = 1 THEN 2 ELSE -1 ] },
      bias   : { [ k \in 1..f |-> 0 ], [ k \in 1..f |-> k ] } ]

\* (variant) the mean over the whole example (time and features) instead of the
\* feature axis alone
Mean2_PerExample(inputs) ==
    LET t == Len(inputs[1])
        f == Len(inputs[1][1])
    IN  [ i \in 1..Len(inputs) |->
            LET rowsum == [ j \in 1..t |-> RSum([ k \in 1..f |-> RInt(inputs[i][j][k]) ], f) ]
            IN  [ j \in 1..t |-> RDivInt(RSum(rowsum, t), t * f) ] ]

\* inputs.mean(2) of a tensor of integers: a (b, t) matrix
Mean2(inputs) ==
    [ i \in 1..Len(inputs) |->
        [ j \in 1..Len(inputs[i]) |->
            LET f == Len(inputs[i][j])
            IN  RDivInt(RSum([ k \in 1..f |-> RInt(inputs[i][j][k]) ], f), f) ] ]

\* m.view(b, t, 1).expand_as(inputs) for a (b, t) matrix m
ViewExpand(m, b, t, f) == [ i \in 1..b |-> [ j \in 1..t |-> [ k \in 1..f |-> m[i][j] ] ] ]

\* LayerNorm1d.forward, lines 27-38.  The code's local name b is the batch size
\* in lines 28-32 and is rebound to the expanded bias in line 36; the two are
\* b and b_bias here, each used where the code reads b.
LayerNorm1d_forward(mod, inputs) ==
    LET b == Len(inputs)
        t == Len(inputs[1])
        f == Len(inputs[1][1])
        mean == ViewExpand(Mean2(inputs), b, t, f)
        input_centered ==
            [ i \in 1..b |-> [ j \in 1..t |-> [ k \in 1..f |->
                RSub(RInt(inputs[i][j][k]), mean[i][j][k]) ] ] ]
        \* input_centered.pow(2).mean(2).add(self.eps); std is its square root
        radicand ==
            [ i \in 1..b |-> [ j \in 1..t |->
                RAdd(RDivInt(RSum([ k \in 1..f |->
                        RMul(input_centered[i][j][k], input_centered[i][j][k]) ], f), f),
                     Eps) ] ]
        std2 == ViewExpand(radicand, b, t, f)
        output ==
            [ i \in 1..b |-> [ j \in 1..t |-> [ k \in 1..f |->
                [ num |-> input_centered[i][j][k], rad |-> std2[i][j][k], off |-> RInt(0) ] ] ] ]
    IN  IF mod.affine
        THEN LET w == [ i \in 1..b |-> [ j \in 1..t |-> mod.weight ] ]
                 b_bias == [ i \in 1..b |-> [ j \in 1..t |-> mod.bias ] ]
             IN  [ i \in 1..b |-> [ j \in 1..t |-> [ k \in 1..f |->
                    [ num |-> RMul(output[i][j][k].num, RInt(w[i][j][k])),
                      rad |-> output[i][j][k].rad,
                      off |-> RInt(b_bias[i][j][k]) ] ] ] ]
        ELSE output

NoLNCall == [ inputs |-> << >>, output |-> << >> ]

L0 ==
    /\ ln_mod = [ affine |-> FALSE, weight |-> << >>, bias |-> << >> ]
    /\ ln_prev = NoLNCall
    /\ ln_last = NoLNCall
    /\ ln_calls = 0

\* LayerNorm1d.__init__, lines 9-20 (and the training that changed the parameters)
LNInit ==
    /\ \E shape \in LNShapes : ln_mod \in LNModules(shape[3])
    /\ ln_prev = NoLNCall
    /\ ln_last = NoLNCall
    /\ ln_calls = 0

\* The inputs of a first call: the constant tensors and a ramp, of every shape
\* that fits the module.
FirstInputs ==
    UNION { { [ i \in 1..s[1] |-> [ j \in 1..s[2] |-> [ k \in 1..s[3] |-> c ] ] ]
                : c \in LNVals } \cup
            { [ i \in 1..s[1] |-> [ j \in 1..s[2] |-> [ k \in 1..s[3] |->
                    ((i + j + k) % (MaxVal + 2)) - 1 ] ] ] }
            : s \in { sh \in LNShapes : ln_mod.affine => sh[3] = Len(ln_mod.weight) } }

\* The inputs of a later call: the last inputs with one element changed.
NextInputs ==
    { [ ln_last.inputs EXCEPT ![p[1]][p[2]][p[3]] = v ] :
        p \in { q \in (1..Len(ln_last.inputs)) \X (1..Len(ln_last.inputs[1]))
                        \X (1..Len(ln_last.inputs[1][1])) : TRUE },
        v \in LNVals }

Forward(inputs) ==
    /\ ln_calls < MaxCalls
    /\ ln_prev' = ln_last
    /\ ln_last' = [ inputs |-> inputs, output |-> LayerNorm1d_forward(ln_mod, inputs) ]
    /\ ln_calls' = ln_calls + 1
    /\ UNCHANGED ln_mod
    /\ UNCHANGED << t_vars, e_vars, d_vars, w_vars >>

LNFirstCall == ln_calls = 0 /\ \E inputs \in FirstInputs : Forward(inputs)
LNLaterCall == ln_calls > 0 /\ \E inputs \in NextInputs : Forward(inputs)


(***************************************************************************)
(* WMT16_de_en.__init__  (datasets/wmt.py, 11-61)                          *)
(***************************************************************************)
\* An argument that may be an object (a list, a dict of tokenizers): its value
\* and which object it is, so that a deep copy is an equal value in another object.
NoneObj == [ val |-> "None", obj |-> "None" ]
CallerObj(v) == [ val |-> v, obj |-> "caller" ]
\* copy.deepcopy: None stays None; an object becomes an equal new object
DeepCopy(x) == IF x = NoneObj THEN x ELSE [ x EXCEPT !.obj = "copy of " \o x.obj ]

Splits == { "train", "dev", "test", "valid" }

WMTArgs ==
    [ root          : { "data", "/corpora/wmt16" },
      split         : Splits,
      tokenization  : { "bpe", "word" },
      num_symbols   : { 32000 },
      shared_vocab  : { TRUE },
      code_files    : { NoneObj, CallerObj("codes") },
      vocab_files   : { NoneObj, CallerObj("vocab") },
      insert_start  : { CallerObj("[BOS]") },
      insert_end    : { CallerObj("[EOS]") },
      mark_language : { FALSE },
      tokenizers    : { NoneObj, CallerObj("tokenizers") },
      moses_pretok  : BOOLEAN,
      load_data     : BOOLEAN ]

\* line 25
Pretok(moses_pretok) == IF moses_pretok THEN ".tok" ELSE ""

\* lines 26-27
TrainPrefix(root, pretok) == root \o "/train" \o pretok \o ".clean"

\* (variant) the dev split reads the test file
DevPrefix_Newstest2016(root, pretok) == root \o "/newstest2016" \o pretok \o ".clean"

\* lines 52-53
DevPrefix(root, pretok) == root \o "/newstest2014" \o pretok \o ".clean"

\* lines 55-56
TestPrefix(root, pretok) == root \o "/newstest2016" \o pretok \o ".clean"

\* (variant) the caller's load_data is handed on to the base class
Options_PassLoadData(a, train_prefix) ==
    [ prefix        |-> train_prefix,
      languages     |-> << "en", "de" >>,
      tokenization  |-> a.tokenization,
      num_symbols   |-> a.num_symbols,
      shared_vocab  |-> a.shared_vocab,
      code_files    |-> a.code_files,
      vocab_files   |-> a.vocab_files,
      insert_start  |-> a.insert_start,
      insert_end    |-> a.insert_end,
      mark_language |-> a.mark_language,
      tokenizers    |-> a.tokenizers,
      load_data     |-> a.load_data ]

\* lines 28-41: options = dict(prefix=train_prefix, ..., load_data=False)
Options(a, train_prefix) ==
    [ prefix        |-> train_prefix,
      languages     |-> << "en", "de" >>,
      tokenization  |-> a.tokenization,
      num_symbols   |-> a.num_symbols,
      shared_vocab  |-> a.shared_vocab,
      code_files    |-> a.code_files,
      vocab_files   |-> a.vocab_files,
      insert_start  |-> a.insert_start,
      insert_end    |-> a.insert_end,
      mark_language |-> a.mark_language,
      tokenizers    |-> a.tokenizers,
      load_data     |-> FALSE ]

\* line 42: deepcopy(options)
DeepCopyOptions(o) ==
    [ o EXCEPT !.code_files = DeepCopy(@), !.vocab_files = DeepCopy(@),
               !.insert_start = DeepCopy(@), !.insert_end = DeepCopy(@),
               !.tokenizers = DeepCopy(@) ]

\* MultiLanguageDataset.__init__(**options) on `target`: what it is called with,
\* and a load when its load_data option is true.
MultiLanguageDataset_init(target, o) ==
    << [ ev |-> "MultiLanguageDataset.__init__", target |-> target, options |-> << o >> ] >>
    \o (IF o.load_data
        THEN << [ ev |-> "load_data", target |-> target, options |-> << >> ] >>
        ELSE << >>)

\* What the helper dataset holds after its __init__: each of tokenizers,
\* code_files, vocab_files is missing, or the object it was given, or one it built.
Absent == [ val |-> "<no attribute>", obj |-> "<no attribute>" ]
Built(name) == [ val |-> name, obj |-> "helper" ]
HelperAttrs(o) ==
    [ tokenizers  : { Absent, o.tokenizers, Built("tokenizers") },
      code_files  : { Absent, o.code_files, Built("codes") },
      vocab_files : { Absent, o.vocab_files, Built("vocab") } ]

\* getattr(train_data, name, None)
GetAttrOrNone(h, name) == IF h[name] = Absent THEN NoneObj ELSE h[name]

\* WMT16_de_en.__init__(root, split, ..., load_data); `h` is what the helper
\* dataset turns out to hold (used for the splits that build one).
WMT16_de_en_init(a, h) ==
    LET pretok == Pretok(a.moses_pretok)
        train_prefix == TrainPrefix(a.root, pretok)
        options == Options(a, train_prefix)
        train_options == DeepCopyOptions(options)
        helper == MultiLanguageDataset_init("train_data", train_options)
        with_helper == [ options EXCEPT !.tokenizers = GetAttrOrNone(h, "tokenizers"),
                                        !.code_files = GetAttrOrNone(h, "code_files"),
                                        !.vocab_files = GetAttrOrNone(h, "vocab_files") ]
        load == IF a.load_data
                THEN << [ ev |-> "load_data", target |-> "self", options |-> << >> ] >>
                ELSE << >>
    IN  /\ w_result = "none"
        /\ w_call' = << [ args |-> a, helper |-> h ] >>
        /\ CASE a.split = "train" ->
                /\ w_log' = MultiLanguageDataset_init("self", train_options) \o load
                /\ w_result' = "ok"
             [] a.split = "dev" ->
                /\ w_log' = helper
                        \o MultiLanguageDataset_init("self",
                               [ with_helper EXCEPT !.prefix = DevPrefix(a.root, pretok) ])
                        \o load
                /\ w_result' = "ok"
             [] a.split = "test" ->
                /\ w_log' = helper
                        \o MultiLanguageDataset_init("self",
                               [ with_helper EXCEPT !.prefix = TestPrefix(a.root, pretok) ])
                        \o load
                /\ w_result' = "ok"
             [] OTHER ->
                \* line 58: prefix was never bound
                /\ w_log' = helper
                /\ w_result' = "UnboundLocalError"
        /\ UNCHANGED << t_vars, e_vars, d_vars, ln_vars >>

W0 ==
    /\ w_call = << >>
    /\ w_log = << >>
    /\ w_result = "none"

\* For split 'train' no helper exists: h is then the one value AbsentHelper.
AbsentHelper == [ tokenizers |-> Absent, code_files |-> Absent, vocab_files |-> Absent ]

ConstructWMT ==
    \E a \in WMTArgs :
        \E h \in IF a.split = "train" THEN { AbsentHelper }
                  ELSE HelperAttrs(DeepCopyOptions(Options(a, ""))) :
            WMT16_de_en_init(a, h)

(***************************************************************************)
(* The specifications                                                      *)
(***************************************************************************)
InitTransformer == T0 /\ E0 /\ D0 /\ L0 /\ W0
NextTransformer == Construct \/ Update
SpecTransformer == InitTransformer /\ [][NextTransformer]_vars

InitEncoder == T0 /\ EncoderInit /\ D0 /\ L0 /\ W0
NextEncoder == EncoderForward
SpecEncoder == InitEncoder /\ [][NextEncoder]_vars

InitDecoder == T0 /\ E0 /\ DecoderInit /\ L0 /\ W0
NextDecoder == DecoderForward
SpecDecoder == InitDecoder /\ [][NextDecoder]_vars

InitLayerNorm == T0 /\ E0 /\ D0 /\ LNInit /\ W0
NextLayerNorm == LNFirstCall \/ LNLaterCall
SpecLayerNorm == InitLayerNorm /\ [][NextLayerNorm]_vars

InitWMT == T0 /\ E0 /\ D0 /\ L0 /\ W0
NextWMT == ConstructWMT
SpecWMT == InitWMT /\ [][NextWMT]_vars

Init == InitTransformer
Next == NextTransformer
Spec == SpecTransformer


(***************************************************************************)
(* Properties                                                              *)
(***************************************************************************)
Built_ == t_pc = "built"

\* The decoder's effective tie_embedding: the caller's decoder dict's value when
\* it has the key, else the top-level argument.
DecoderOverridesTie == "tie_embedding" \in DOMAIN t_dec_arg[2]
EffectiveDecoderTie ==
    IF DecoderOverridesTie THEN t_dec_arg[2]["tie_embedding"] ELSE t_args.tie_embedding

SameParameter(x, y) == t_refs[x] = t_refs[y]

\* C1: after Transformer.__init__, encoder.embedder.weight is the same parameter
\* object as decoder.classifier.weight iff the top-level tie_embedding is true, and
\* decoder.embedder.weight is the same object as decoder.classifier.weight iff the
\* decoder's effective tie_embedding is true; with tie_embedding=True and no
\* override all three are one parameter (an update through one is read through
\* the others), with tie_embedding=False and no override they are pairwise distinct.
C1_WeightTying ==
    Built_ =>
        /\ SameParameter("encoder.embedder.weight", "decoder.classifier.weight")
                <=> Truthy(t_args.tie_embedding)
        /\ SameParameter("decoder.embedder.weight", "decoder.classifier.weight")
                <=> Truthy(EffectiveDecoderTie)
        /\ (Truthy(t_args.tie_embedding) /\ ~DecoderOverridesTie) =>
                \A x, y \in WeightAttrs :
                    SameParameter(x, y) /\ ReadWeight(x) = ReadWeight(y)
        /\ (~Truthy(t_args.tie_embedding) /\ ~DecoderOverridesTie) =>
                \A x, y \in WeightAttrs : x # y => ~SameParameter(x, y)

\* C1 witness: a tied model without override whose shared weight was updated
C1_Witness ==
    /\ Built_
    /\ Truthy(t_args.tie_embedding)
    /\ ~DecoderOverridesTie
    /\ ReadWeight("encoder.embedder.weight") = 1

\* The value the claim gives a key that the caller's dict lacks.
ClaimedTopValue(k) ==
    IF k = "embedding_size"
    THEN (IF t_args.embedding_size = PyNone THEN t_args.hidden_size
          ELSE t_args.embedding_size)
    ELSE t_args[k]

\* The same with `embedding_size or hidden_size` read as Python reads it.
TopValue(k) ==
    IF k = "embedding_size"
    THEN (IF t_args.embedding_size \in { PyNone, PyInt(0) } THEN t_args.hidden_size
          ELSE t_args.embedding_size)
    ELSE t_args[k]

ClaimedKwargs(arg, kwargs, keys) ==
    /\ DOMAIN kwargs = keys
    /\ \A k \in keys :
          kwargs[k] = IF k \in DOMAIN arg[2] THEN arg[2][k] ELSE ClaimedTopValue(k)

ExpectedKwargs(arg, kwargs, keys) ==
    /\ DOMAIN kwargs = keys
    /\ \A k \in keys :
          kwargs[k] = IF k \in DOMAIN arg[2] THEN arg[2][k] ELSE TopValue(k)

\* C2 as claimed: the sub-modules are built with the dict's value for every key
\* the caller's dict has and the top-level value (hidden_size for embedding_size
\* None) otherwise, and every caller-supplied dict holds all the keys afterwards.
C2_AsClaimed ==
    Built_ =>
        /\ ClaimedKwargs(t_enc_arg, t_enc_kwargs, EncoderKeys)
        /\ ClaimedKwargs(t_dec_arg, t_dec_kwargs, DecoderKeys)
        /\ ~IsNoneArg(t_enc_arg) => EncoderKeys \subseteq DOMAIN t_enc_obj[2]
        /\ ~IsNoneArg(t_dec_arg) => DecoderKeys \subseteq DOMAIN t_dec_obj[2]

\* C2 amended: as claimed, with hidden_size standing in for embedding_size when
\* embedding_size is None or 0, and the filling written into the caller's dict
\* only when that dict is non-empty; an empty dict of the caller stays empty.
C2_ConfigDefaults ==
    Built_ =>
        /\ ExpectedKwargs(t_enc_arg, t_enc_kwargs, EncoderKeys)
        /\ ExpectedKwargs(t_dec_arg, t_dec_kwargs, DecoderKeys)
        /\ DictTruthy(t_enc_arg) => t_enc_obj = DictArg(t_enc_kwargs)
        /\ DictTruthy(t_dec_arg) => t_dec_obj = DictArg(t_dec_kwargs)
        /\ ~DictTruthy(t_enc_arg) => t_enc_obj = t_enc_arg
        /\ ~DictTruthy(t_dec_arg) => t_dec_obj = t_dec_arg

\* C2 witness: a non-empty encoder dict that was filled, an empty decoder dict
\* that was not, and embedding_size=0
C2_Witness ==
    /\ Built_
    /\ DictTruthy(t_enc_arg)
    /\ DOMAIN t_enc_obj[2] = EncoderKeys
    /\ t_dec_arg = DictArg(EmptyDict)
    /\ t_dec_obj = DictArg(EmptyDict)
    /\ t_args.embedding_size = PyInt(0)
    /\ t_dec_kwargs["embedding_size"] = t_args.hidden_size

\* C3: the output of LayerNorm1d.forward at a (batch, time) position is fixed by
\* the input at that position: two calls whose inputs agree at [i, j, :] give the
\* same output at [i, j, :], whatever the inputs are elsewhere.
C3_PerPosition ==
    ln_calls >= 2 =>
        \A i \in 1..Len(ln_last.inputs) : \A j \in 1..Len(ln_last.inputs[i]) :
            ln_prev.inputs[i][j] = ln_last.inputs[i][j] =>
                \A k \in 1..Len(ln_last.inputs[i][j]) :
                    SameReal(ln_prev.output[i][j][k], ln_last.output[i][j][k])

\* C3 witness: two calls of an affine module whose inputs differ at one position
\* (where the output differs too) and agree at another
C3_Witness ==
    /\ ln_calls >= 2
    /\ ln_mod.affine
    /\ \E i \in 1..Len(ln_last.inputs) : \E j \in 1..Len(ln_last.inputs[i]) :
          /\ ln_prev.inputs[i][j] # ln_last.inputs[i][j]
          /\ \E k \in 1..Len(ln_last.inputs[i][j]) :
                ~SameReal(ln_prev.output[i][j][k], ln_last.output[i][j][k])
    /\ \E i \in 1..Len(ln_last.inputs) : \E j \in 1..Len(ln_last.inputs[i]) :
          /\ ln_prev.inputs[i][j] = ln_last.inputs[i][j]
          /\ \E k \in 1..Len(ln_last.inputs[i][j]) : ln_last.inputs[i][j][k] # 0

\* C4: in every decoder forward call each DecoderBlock's masked self-attention
\* runs with query and key masks equal to that call's padding mask, and its
\* cross-attention with a key mask equal to that call's context.mask (no mask
\* when context.mask is None), whatever earlier calls set.
C4_NoMaskCarriedOver ==
    d_call.made =>
        LET pm == IF d_cfg.mask_symbol = NoSymbol THEN NoMask
                  ELSE Mask([ n \in 1..Len(d_call.inputs) |->
                                d_call.inputs[n] = d_cfg.mask_symbol ])
        IN  /\ Len(d_call.x.passed) = d_cfg.num_layers
            /\ \A i \in 1..d_cfg.num_layers :
                  /\ d_call.x.passed[i].self_mask_q = pm
                  /\ d_call.x.passed[i].self_mask_k = pm
                  /\ d_call.x.passed[i].cross_mask_k = d_call.context_mask

\* C5: in every encoder forward call each block, in order, runs with query and
\* key masks equal to the call's padding mask (the positions whose token is
\* mask_symbol; no mask when mask_symbol is None), set before the block ran and
\* overwriting what an earlier call left; the State returned carries that mask
\* and the last block's output.
C5_EncoderMasks ==
    e_call.made =>
        LET pm == IF e_cfg.mask_symbol = NoSymbol THEN NoMask
                  ELSE Mask([ n \in 1..Len(e_call.inputs) |->
                                e_call.inputs[n] = e_cfg.mask_symbol ])
            x == e_call.state.outputs
        IN  /\ x.embedded = e_call.inputs
            /\ Len(x.passed) = e_cfg.num_layers
            /\ \A i \in 1..e_cfg.num_layers :
                  x.passed[i] = [ block |-> i, mask_q |-> pm, mask_k |-> pm ]
            /\ \A i \in 1..e_cfg.num_layers :
                  e_blocks[i].attention = [ mask_q |-> pm, mask_k |-> pm ]
            /\ e_call.state.mask = pm

\* C5 witness: a call on a two-block encoder whose blocks held another mask
\* from an earlier call
C5_Witness ==
    /\ e_call.made
    /\ e_cfg.num_layers >= 2
    /\ e_call.before.mask_k # NoMask
    /\ e_call.before.mask_k # e_call.state.mask
    /\ \E n \in 1..Len(e_call.inputs) : e_call.inputs[n] = e_cfg.mask_symbol

WArgs == w_call[1].args
WHelper == w_call[1].helper

IsInit(e, target) == e.ev = "MultiLanguageDataset.__init__" /\ e.target = target
IsLoad(e, target) == e.ev = "load_data" /\ e.target = target
Count(P(_)) == Cardinality({ n \in 1..Len(w_log) : P(w_log[n]) })
IsSelfInit(e) == IsInit(e, "self")
IsSelfLoad(e) == IsLoad(e, "self")
IsHelperInit(e) == IsInit(e, "train_data")
IsHelperLoad(e) == IsLoad(e, "train_data")

\* The options the base-class initialiser of the dataset itself was called with.
SelfOptions == (CHOOSE n \in 1..Len(w_log) : IsSelfInit(w_log[n]))
BaseOptions == w_log[SelfOptions].options[1]

ClaimedFile(split) ==
    CASE split = "train" -> "train"
      [] split = "dev"   -> "newstest2014"
      [] split = "test"  -> "newstest2016"

\* C6: the data file prefix is <root>/train<pretok>.clean for split 'train',
\* <root>/newstest2014<pretok>.clean for 'dev' and <root>/newstest2016<pretok>.clean
\* for 'test', with pretok '.tok' when moses_pretok is true and '' otherwise; the
\* languages passed to the base class are ['en', 'de'] in that order.
C6_Prefix ==
    (w_result # "none" /\ WArgs.split \in { "train", "dev", "test" }) =>
        /\ Count(IsSelfInit) = 1
        /\ BaseOptions.prefix =
              WArgs.root \o "/" \o ClaimedFile(WArgs.split)
                  \o (IF WArgs.moses_pretok THEN ".tok" ELSE "") \o ".clean"
        /\ \A n \in 1..Len(w_log) :
              w_log[n].ev = "MultiLanguageDataset.__init__" =>
                  w_log[n].options[1].languages = << "en", "de" >>

\* C6 witness: a dev dataset built on Moses-pretokenised files
C6_Witness ==
    /\ w_result = "ok"
    /\ WArgs.split = "dev"
    /\ WArgs.moses_pretok
    /\ BaseOptions.prefix = "data/newstest2014.tok.clean"

\* The caller's options as values (a deep copy holds the same values).
SameValues(o, a) ==
    /\ o.tokenization = a.tokenization
    /\ o.num_symbols = a.num_symbols
    /\ o.shared_vocab = a.shared_vocab
    /\ o.mark_language = a.mark_language
    /\ o.insert_start.val = a.insert_start.val
    /\ o.insert_end.val = a.insert_end.val

SameFiles(o, a) ==
    /\ o.tokenizers.val = a.tokenizers.val
    /\ o.code_files.val = a.code_files.val
    /\ o.vocab_files.val = a.vocab_files.val

HelperOrNone(name) == IF WHelper[name] = Absent THEN NoneObj ELSE WHelper[name]

\* For a split other than 'train': the helper is built first, on the training
\* prefix, with the caller's options and load_data=False.
HelperFirst ==
    WArgs.split # "train" =>
        /\ Len(w_log) >= 1
        /\ IsHelperInit(w_log[1])
        /\ Count(IsHelperInit) = 1
        /\ LET o == w_log[1].options[1]
           IN  /\ o.prefix = WArgs.root \o "/train"
                       \o (IF WArgs.moses_pretok THEN ".tok" ELSE "") \o ".clean"
               /\ o.load_data = FALSE
               /\ SameValues(o, WArgs)
               /\ SameFiles(o, WArgs)

\* For 'dev' and 'test': the base class gets the helper's tokenizers, code_files
\* and vocab_files (None for a missing attribute) in place of the caller's.
HelperAttributesUsed ==
    WArgs.split \in { "dev", "test" } =>
        /\ Count(IsSelfInit) = 1
        /\ BaseOptions.tokenizers = HelperOrNone("tokenizers")
        /\ BaseOptions.code_files = HelperOrNone("code_files")
        /\ BaseOptions.vocab_files = HelperOrNone("vocab_files")
        /\ SameValues(BaseOptions, WArgs)

\* For 'train': no helper, and the caller's values go to the base class.
TrainPassThrough ==
    WArgs.split = "train" =>
        /\ Count(IsHelperInit) = 0
        /\ Count(IsSelfInit) = 1
        /\ SameValues(BaseOptions, WArgs)
        /\ SameFiles(BaseOptions, WArgs)

\* The base class is initialised once with load_data=False, the helper never
\* loads, and self.load_data() runs once, last, iff load_data is true.
LoadsOnceAfterInit ==
    /\ Count(IsSelfInit) = 1
    /\ BaseOptions.load_data = FALSE
    /\ Count(IsHelperLoad) = 0
    /\ Count(IsSelfLoad) = (IF WArgs.load_data THEN 1 ELSE 0)
    /\ WArgs.load_data => IsSelfLoad(w_log[Len(w_log)]) /\ IsSelfInit(w_log[Len(w_log) - 1])
    /\ ~WArgs.load_data => IsSelfInit(w_log[Len(w_log)])

\* C7 as claimed: helper first for every split but 'train', the helper's
\* attributes used for dev/test, pass-through for 'train', and in every case one
\* base-class initialisation with load_data=False followed by one load iff
\* load_data is true.
C7_AsClaimed ==
    w_result # "none" =>
        /\ HelperFirst
        /\ HelperAttributesUsed
        /\ TrainPassThrough
        /\ LoadsOnceAfterInit

\* C7 amended: as claimed for the splits 'train', 'dev' and 'test'; for any
\* other split the helper is built, then the constructor raises before the base
\* class is initialised, and nothing is loaded.
C7_HelperAndLoad ==
    w_result # "none" =>
        /\ HelperFirst
        /\ HelperAttributesUsed
        /\ TrainPassThrough
        /\ IF WArgs.split \in { "train", "dev", "test" }
           THEN w_result = "ok" /\ LoadsOnceAfterInit
           ELSE /\ w_result = "UnboundLocalError"
                /\ Len(w_log) = 1
                /\ Count(IsSelfInit) = 0
                /\ Count(IsSelfLoad) = 0
                /\ Count(IsHelperLoad) = 0

\* C7 witness: a test dataset that loads its data, whose helper lacks tokenizers
\* although the caller supplied some
C7_Witness ==
    /\ w_result = "ok"
    /\ WArgs.split = "test"
    /\ WArgs.load_data
    /\ WArgs.tokenizers # NoneObj
    /\ WHelper.tokenizers = Absent
    /\ BaseOptions.tokenizers = NoneObj
    /\ Len(w_log) = 3

=============================================================================
